---- MODULE Spec2Model ----
(***************************************************************************)
(* The directory aggregator of DevTools/collect_all.py and                 *)
(* DevTools/collect_project_v4.py: __main__ calls ensure_output_dir and    *)
(* then collect_files, which opens the output document, writes the FILE    *)
(* STRUCTURE section by walking the tree, and then the FILE CONTENTS       *)
(* section by walking the tree a second time.                              *)
(*                                                                         *)
(* Strings are sequences of one-character strings, so that startswith,    *)
(* endswith, count, basename and sorted are computed character by          *)
(* character as Python computes them.  Paths are relative to PROJECT_ROOT; *)
(* the empty sequence is the root itself (rel_root == "").                 *)
(***************************************************************************)
EXTENDS Naturals, Sequences, FiniteSets

VARIABLES
    files,          \* the regular files of the tree: records [dir, name]
    unreadable,     \* the files whose open()/read() raises
    outDirExists,   \* does OUTPUT_DIR exist
    docs,           \* the documents of OUTPUT_DIR: name -> [exists, data]
    cfgs,           \* the collect_files calls of __main__, in order
    run,            \* 1 or 2: which execution of the script this is
    di,             \* index in cfgs of the current collect_files call
    pc,             \* position in __main__ / collect_files
    out,            \* what the current call has written to outfile so far
    si,             \* index of the current scan_dir_rel in scan_dirs
    ei,             \* index of the current entry of extra_files
    stack,          \* os.walk: the directories still to be visited
    pending,        \* contents pass: sorted(files) of the current directory, not yet emitted
    raised,         \* an exception escaped collect_files
    prevDocs,       \* the documents as they were when this execution started
    bufsize,        \* how many written pieces fill the buffer of outfile
    gone            \* how many files another process has removed during the run

vars == <<files, unreadable, outDirExists, docs, cfgs, run, di, pc, out, si, ei,
          stack, pending, raised, prevDocs, bufsize, gone>>

(***************************************************************************)
(* Bounds of the model.                                                    *)
(***************************************************************************)
MaxUnreadable == 1
MaxGone == 1

(***************************************************************************)
(* Strings.                                                                *)
(***************************************************************************)
Sep == "/"

\* The characters that occur in the modelled names, in code point order.
Alphabet == <<".", "/", "D", "O", "a", "b", "c", "d", "g", "l", "m", "n", "p",
              "q", "r", "s", "t", "x", "y">>

Code(c) == CHOOSE i \in 1..Len(Alphabet) : Alphabet[i] = c

\* s.startswith(p)
StartsWith(s, p) == Len(p) <= Len(s) /\ SubSeq(s, 1, Len(p)) = p

\* s.endswith(p)
EndsWith(s, p) == Len(p) <= Len(s) /\ SubSeq(s, Len(s) - Len(p) + 1, Len(s)) = p

\* s.count(os.sep)
CountSep(s) == Cardinality({i \in 1..Len(s) : s[i] = Sep})

\* Python's str ordering: a < b
StrLess(a, b) ==
    \E i \in 1..(Len(a) + 1) :
        /\ i <= Len(b)
        /\ SubSeq(a, 1, i - 1) = SubSeq(b, 1, i - 1)
        /\ \/ i = Len(a) + 1
           \/ i <= Len(a) /\ Code(a[i]) < Code(b[i])

RECURSIVE Sorted(_)
\* sorted(names) of a set of distinct names
Sorted(S) ==
    IF S = {} THEN <<>>
    ELSE LET m == CHOOSE x \in S : \A y \in S : x = y \/ StrLess(x, y)
         IN  <<m>> \o Sorted(S \ {m})

\* os.path.join(dir, name) followed by os.path.relpath(.., PROJECT_ROOT)
Join(dir, name) ==
    IF dir = <<>> \/ dir = <<".">> THEN (IF name = <<".">> THEN <<>> ELSE name)
    ELSE IF name = <<".">> THEN dir
    ELSE dir \o <<Sep>> \o name

LastSep(p) ==
    IF \E i \in 1..Len(p) : p[i] = Sep
    THEN CHOOSE i \in 1..Len(p) : p[i] = Sep /\ \A j \in (i + 1)..Len(p) : p[j] # Sep
    ELSE 0

\* os.path.basename(p)
Basename(p) == SubSeq(p, LastSep(p) + 1, Len(p))

\* os.path.dirname(p)
Dirname(p) == IF LastSep(p) = 0 THEN <<>> ELSE SubSeq(p, 1, LastSep(p) - 1)

RECURSIVE JoinComma(_)
\* ", ".join(names)
JoinComma(names) ==
    IF names = <<>> THEN <<>>
    ELSE IF Len(names) = 1 THEN names[1]
    ELSE names[1] \o <<",", " ">> \o JoinComma(Tail(names))

Range(s) == {s[i] : i \in 1..Len(s)}

(***************************************************************************)
(* The file system.                                                        *)
(***************************************************************************)
Root     == <<>>
Dot      == <<".">>
Src      == <<"s">>
Gen      == <<"g">>
Lib      == <<"l">>
DevTools == <<"D">>
Output   == <<"O">>
Absent   == <<"m">>

SrcGen   == Join(Src, Gen)

\* SCRIPT_DIR and OUTPUT_DIR, relative to PROJECT_ROOT = SCRIPT_DIR/..
SCRIPT_DIR == DevTools
OUTPUT_DIR == Join(SCRIPT_DIR, Output)
PROJECT_ROOT == <<"/", "p">>

\* The directories of the tree, in the order in which scandir lists them
\* (arbitrary, the same on every listing).
DirOrder == <<Root, Src, SrcGen, Lib, SCRIPT_DIR, OUTPUT_DIR>>

ExistingDirs == {DirOrder[i] : i \in 1..Len(DirOrder)} \ (IF outDirExists THEN {} ELSE {OUTPUT_DIR})

\* os.path.exists(os.path.join(PROJECT_ROOT, rel))
Exists(rel) ==
    \/ Join(Root, rel) \in ExistingDirs
    \/ [dir |-> Dirname(Join(Root, rel)), name |-> Basename(Join(Root, rel))] \in files

Ax == <<"a", ".", "x">>
Bx == <<"b", ".", "x">>
Cx == <<"c", ".", "x">>
Dx == <<"d", ".", "x">>
Rx == <<"r", ".", "x">>
Ny == <<"n", ".", "y">>
Pt == <<"p", ".", "t">>
Qt == <<"q", ".", "t">>

ExtX == <<".", "x">>
ExtY == <<".", "y">>
ExtT == <<".", "t">>

F(d, n) == [dir |-> d, name |-> n]

DumpNames == {Pt, Qt}

(***************************************************************************)
(* The calls of collect_files.  A call is a record of its arguments; the   *)
(* arguments of the other script's signature are left at their defaults.   *)
(***************************************************************************)
\* collect_project_v4.IGNORE_DIRS, restricted to the names that occur in the tree
IGNORE_DIRS == {DevTools, Output}

AllCall(scan, ign, extra, ext, name) ==
    [script |-> "all", scan_dirs |-> scan, ignore_set |-> ign, extra_files |-> extra,
     extensions |-> ext, include_paths |-> <<>>, exclude_paths |-> <<>>,
     output_filename |-> name]

V4Call(ext, inc, exc, name) ==
    [script |-> "v4", scan_dirs |-> <<Dot>>, ignore_set |-> IGNORE_DIRS, extra_files |-> <<>>,
     extensions |-> ext, include_paths |-> inc, exclude_paths |-> exc,
     output_filename |-> name]

\* collect_all.collect_files: a scan of the root, or of sub-directories with
\* root files added (the shapes of the three calls of __main__), under the
\* ignore sets that name a directory of the tree.
AllCalls ==
    {AllCall(<<Dot>>, ign, <<>>, ext, Pt) :
        ign \in {{}, {Gen}, {Src}, {DevTools}}, ext \in {<<ExtX>>, <<ExtY, ExtX>>}}
    \cup
    {AllCall(scan, ign, extra, <<ExtX>>, Pt) :
        scan \in {<<Src>>, <<Src, Lib>>, <<Lib, Src>>, <<Absent, Lib>>, <<Lib, Absent>>},
        ign \in {{}, {Gen}, {Src}},
        extra \in {<<>>, <<Rx>>}}

\* collect_project_v4.collect_files
V4Calls ==
    {V4Call(ext, inc, exc, Pt) :
        ext \in {<<ExtX>>, <<ExtY, ExtX>>},
        inc \in {<<>>, <<Src>>, <<SrcGen>>, <<Lib, Src>>},
        exc \in {<<>>, <<SrcGen>>, <<Lib>>}}

Calls == AllCalls \cup V4Calls

cur == cfgs[di]

(***************************************************************************)
(* The output document: a sequence of written pieces.  name and ind are    *)
(* the text of the piece; path is the root-relative path of the file or    *)
(* directory a line stands for (the line itself shows only its base name). *)
(***************************************************************************)
Tok(k, ind, name, path, body) ==
    [k |-> k, ind |-> ind, name |-> name, path |-> path, body |-> body]

\* write_header(outfile, "DUMP GENERATED", source_desc)
write_header(source_desc) == <<Tok("header", 0, source_desc, <<>>, <<>>)>>

StructureTitle == Tok("structure", 0, <<>>, <<>>, <<>>)
ContentsTitle  == Tok("contents", 0, <<>>, <<>>, <<>>)

\* The text of a document no run of the model writes: what an earlier
\* execution left in OUTPUT_DIR.
Stale == <<Tok("stale", 0, <<>>, <<>>, <<>>)>>

\* "{extra} (Root File)"
RootFileLine(extra) == Tok("rootfile", 0, extra, Join(Root, extra), <<>>)

\* the else branch of the structure pass left out
NotFoundLine_silent(scan_dir_rel) == <<>>

\* "(Directory not found: {scan_dir_rel})"
NotFoundLine(scan_dir_rel) == <<Tok("notfound", 0, scan_dir_rel, <<>>, <<>>)>>

\* the text of a source file, which differs from file to file
Text(f) == <<Tok("text", 0, Join(f.dir, f.name), <<>>, <<>>)>>

ErrorMarker == <<Tok("error", 0, <<>>, <<>>, <<>>)>>

(***************************************************************************)
(* os.walk and the filters.                                                *)
(***************************************************************************)
\* the sub-directories scandir finds in root
WalkDirs(root) ==
    SelectSeq(DirOrder, LAMBDA d : d \in ExistingDirs /\ d # Root /\ Dirname(d) = root)

\* the names of the regular files scandir finds in root
WalkFiles(root) ==
    {f.name : f \in {g \in files : g.dir = root}}
    \cup (IF root = OUTPUT_DIR THEN {n \in DumpNames : docs[n].exists} ELSE {})

\* dirs[:] = [d for d in dirs if d not in ignore_set]
Prune(dirs, ignore_set) == SelectSeq(dirs, LAMBDA d : Basename(d) \notin ignore_set)

\* any(f.endswith(ext) for ext in extensions)
ExtMatch(f, extensions) == \E i \in 1..Len(extensions) : EndsWith(f, extensions[i])

\* [f for f in sorted(files) if any(f.endswith(ext) for ext in extensions)]
Matching(names, extensions) ==
    SelectSeq(Sorted(names), LAMBDA f : ExtMatch(f, extensions))

\* structure pass of collect_project_v4: the directory is not skipped by a continue
StructVisits(rel_root, include_paths, exclude_paths) ==
    /\ include_paths # <<>> =>
         \E i \in 1..Len(include_paths) :
            StartsWith(rel_root, include_paths[i]) \/ StartsWith(include_paths[i], rel_root)
    /\ exclude_paths # <<>> =>
         ~ \E i \in 1..Len(exclude_paths) : StartsWith(rel_root, exclude_paths[i])

\* the contents pass without its exclude_paths test
ContentVisits_noExclude(rel_root, include_paths, exclude_paths) ==
    include_paths # <<>> =>
       \E i \in 1..Len(include_paths) : StartsWith(rel_root, include_paths[i])

\* contents pass of collect_project_v4: the directory is not skipped by a continue
ContentVisits(rel_root, include_paths, exclude_paths) ==
    /\ include_paths # <<>> =>
         \E i \in 1..Len(include_paths) : StartsWith(rel_root, include_paths[i])
    /\ exclude_paths # <<>> =>
         ~ \E i \in 1..Len(exclude_paths) : StartsWith(rel_root, exclude_paths[i])

\* the lines the structure pass writes for one directory of the walk
StructLines(script, rel_root, names, extensions) ==
    LET level == CountSep(rel_root)
        subindent == IF script = "all" /\ rel_root = <<>> THEN 0 ELSE 4 * (level + 1)
        m == Matching(names, extensions)
    IN  (IF rel_root # <<>>
         THEN <<Tok("dir", 4 * level, Basename(rel_root), rel_root, <<>>)>>
         ELSE <<>>)
        \o [i \in 1..Len(m) |-> Tok("file", subindent, m[i], Join(rel_root, m[i]), <<>>)]

(***************************************************************************)
(* Reading a file and writing its block.                                   *)
(***************************************************************************)
\* The part of the written text that has left the buffer of outfile: the
\* buffer is flushed each time it is full.
Flushed(text) == SubSeq(text, 1, bufsize * (Len(text) \div bufsize))

\* open(filepath, 'r').read(): the text, or an exception.  The document
\* being written is read as far as it has been flushed.
ReadFile(f) ==
    IF f.dir = OUTPUT_DIR /\ f.name \in DumpNames
    THEN IF ~ docs[f.name].exists THEN [ok |-> FALSE, data |-> <<>>]
         ELSE IF f.name = cur.output_filename
              THEN [ok |-> TRUE, data |-> docs[f.name].data \o Flushed(out)]
              ELSE [ok |-> TRUE, data |-> docs[f.name].data]
    ELSE IF f \in files /\ f \notin unreadable
         THEN [ok |-> TRUE, data |-> Text(f)]
         ELSE [ok |-> FALSE, data |-> <<>>]

\* the except branch left without its write: the error is swallowed
write_file_content_unmarked(f, outcome) ==
    <<Tok("block", 0, Join(f.dir, f.name), Join(f.dir, f.name),
          IF outcome.ok THEN outcome.data ELSE <<>>)>>

write_file_content(f, outcome) ==
    <<Tok("block", 0, Join(f.dir, f.name), Join(f.dir, f.name),
          IF outcome.ok THEN outcome.data ELSE ErrorMarker)>>

\* the document opened with 'a' instead of 'w'
OpenForAppend(old) == old

\* open(full_output_path, 'w'): what is left of the document's old text
OpenForWrite(old) == <<>>

(***************************************************************************)
(* The initial states: a tree, what an earlier execution left in           *)
(* OUTPUT_DIR, and the calls __main__ makes.                               *)
(***************************************************************************)
AlwaysFiles == {F(Src, Ax), F(Src, Ny), F(SrcGen, Cx), F(SCRIPT_DIR, Dx)}
SomeFiles   == {F(Root, Rx), F(Src, Bx), F(Lib, Bx)}

NoDocs    == [n \in DumpNames |-> [exists |-> FALSE, data |-> <<>>]]
StaleDocs == [n \in DumpNames |-> [exists |-> n = Pt, data |-> IF n = Pt THEN Stale ELSE <<>>]]

InitTree ==
    /\ files \in {AlwaysFiles \cup o : o \in SUBSET SomeFiles}
    /\ unreadable \in {u \in SUBSET files : Cardinality(u) <= MaxUnreadable}
    /\ outDirExists \in BOOLEAN
    /\ docs \in (IF outDirExists THEN {NoDocs, StaleDocs} ELSE {NoDocs})

InitProgram ==
    /\ run = 1
    /\ di = 1
    /\ pc = "main"
    /\ out = <<>>
    /\ si = 1
    /\ ei = 1
    /\ stack = <<>>
    /\ pending = <<>>
    /\ raised = FALSE
    /\ prevDocs = docs
    /\ gone = 0

\* io.DEFAULT_BUFFER_SIZE holds more than any document of the model
DefaultBuffer == 50

Init ==
    /\ InitTree
    /\ cfgs \in {<<c>> : c \in Calls}
    /\ bufsize = DefaultBuffer
    /\ InitProgram

(***************************************************************************)
(* __main__ and collect_files, one step at a time.                         *)
(***************************************************************************)
\* if not os.path.exists(OUTPUT_DIR): os.makedirs(OUTPUT_DIR)
ensure_output_dir ==
    /\ pc = "main"
    /\ outDirExists' = (IF ~ outDirExists THEN TRUE ELSE outDirExists)
    /\ pc' = "open"
    /\ UNCHANGED <<files, unreadable, docs, cfgs, run, di, out, si, ei, stack, pending,
                   raised, prevDocs, bufsize, gone>>

\* with open(full_output_path, 'w') as outfile: write_header(..); "=== FILE STRUCTURE ==="
OpenOutput ==
    /\ pc = "open"
    /\ IF ~ outDirExists
       THEN /\ raised' = TRUE
            /\ pc' = "done"
            /\ UNCHANGED <<docs, out, ei, stack>>
       ELSE /\ docs' = [docs EXCEPT ![cur.output_filename] =
                           [exists |-> TRUE, data |-> OpenForWrite(@.data)]]
            /\ out' = write_header(IF cur.script = "all" THEN JoinComma(cur.scan_dirs)
                                   ELSE PROJECT_ROOT) \o <<StructureTitle>>
            /\ IF cur.script = "all"
               THEN pc' = "s_extras" /\ ei' = 1 /\ stack' = <<>>
               ELSE pc' = "s_walk" /\ stack' = <<Root>> /\ UNCHANGED ei
            /\ UNCHANGED raised
    /\ UNCHANGED <<files, unreadable, outDirExists, cfgs, run, di, si, pending,
                   prevDocs, bufsize, gone>>

\* collect_all: for extra in extra_files (structure)
StructExtra ==
    /\ pc = "s_extras"
    /\ IF ei <= Len(cur.extra_files)
       THEN /\ out' = out \o (IF Exists(cur.extra_files[ei])
                              THEN <<RootFileLine(cur.extra_files[ei])>> ELSE <<>>)
            /\ ei' = ei + 1
            /\ UNCHANGED <<pc, si>>
       ELSE /\ pc' = "s_scan"
            /\ si' = 1
            /\ UNCHANGED <<out, ei>>
    /\ UNCHANGED <<files, unreadable, outDirExists, docs, cfgs, run, di, stack, pending,
                   raised, prevDocs, bufsize, gone>>

\* collect_all: for scan_dir_rel in scan_dirs (structure)
StructScanDir ==
    /\ pc = "s_scan"
    /\ IF si <= Len(cur.scan_dirs)
       THEN IF Exists(cur.scan_dirs[si])
            THEN /\ stack' = <<Join(Root, cur.scan_dirs[si])>>
                 /\ pc' = "s_walk"
                 /\ UNCHANGED <<out, si>>
            ELSE /\ out' = out \o NotFoundLine(cur.scan_dirs[si])
                 /\ si' = si + 1
                 /\ UNCHANGED <<pc, stack>>
       ELSE /\ out' = out \o <<ContentsTitle>>
            /\ pc' = "c_scan"
            /\ si' = 1
            /\ UNCHANGED stack
    /\ UNCHANGED <<files, unreadable, outDirExists, docs, cfgs, run, di, ei, pending,
                   raised, prevDocs, bufsize, gone>>

\* for root, dirs, files in os.walk(..) (structure): one directory
StructWalk ==
    /\ pc = "s_walk"
    /\ IF stack # <<>>
       THEN LET rel_root == Head(stack)
            IN  /\ stack' = Prune(WalkDirs(rel_root), cur.ignore_set) \o Tail(stack)
                /\ out' = out \o
                     (IF cur.script = "v4"
                         /\ ~ StructVisits(rel_root, cur.include_paths, cur.exclude_paths)
                      THEN <<>>
                      ELSE StructLines(cur.script, rel_root, WalkFiles(rel_root),
                                       cur.extensions))
                /\ UNCHANGED <<pc, si>>
       ELSE IF cur.script = "all"
            THEN /\ si' = si + 1
                 /\ pc' = "s_scan"
                 /\ UNCHANGED <<out, stack>>
            ELSE /\ out' = out \o <<ContentsTitle>>
                 /\ pc' = "c_walk"
                 /\ stack' = <<Root>>
                 /\ UNCHANGED si
    /\ UNCHANGED <<files, unreadable, outDirExists, docs, cfgs, run, di, ei, pending,
                   raised, prevDocs, bufsize, gone>>

\* collect_all: for scan_dir_rel in scan_dirs (contents)
ContScanDir ==
    /\ pc = "c_scan"
    /\ IF si <= Len(cur.scan_dirs)
       THEN IF Exists(cur.scan_dirs[si])
            THEN /\ stack' = <<Join(Root, cur.scan_dirs[si])>>
                 /\ pc' = "c_walk"
                 /\ UNCHANGED <<si, ei>>
            ELSE /\ si' = si + 1
                 /\ UNCHANGED <<pc, stack, ei>>
       ELSE /\ pc' = "c_extras"
            /\ ei' = 1
            /\ UNCHANGED <<si, stack>>
    /\ UNCHANGED <<files, unreadable, outDirExists, docs, cfgs, run, di, out, pending,
                   raised, prevDocs, bufsize, gone>>

\* for root, dirs, files in os.walk(..) (contents): one directory is listed
ContWalk ==
    /\ pc = "c_walk"
    /\ pending = <<>>
    /\ IF stack # <<>>
       THEN LET rel_root == Head(stack)
                m == Matching(WalkFiles(rel_root), cur.extensions)
            IN  /\ stack' = Prune(WalkDirs(rel_root), cur.ignore_set) \o Tail(stack)
                /\ pending' =
                     (IF cur.script = "v4"
                         /\ ~ ContentVisits(rel_root, cur.include_paths, cur.exclude_paths)
                      THEN <<>>
                      ELSE [i \in 1..Len(m) |-> F(rel_root, m[i])])
                /\ UNCHANGED <<pc, si>>
       ELSE /\ IF cur.script = "all"
               THEN si' = si + 1 /\ pc' = "c_scan"
               ELSE pc' = "close" /\ UNCHANGED si
            /\ UNCHANGED <<stack, pending>>
    /\ UNCHANGED <<files, unreadable, outDirExists, docs, cfgs, run, di, out, ei,
                   raised, prevDocs, bufsize, gone>>

\* write_file_content(outfile, filepath, PROJECT_ROOT) for the next listed file
ContEmit ==
    /\ pc \in {"c_walk", "c_extras"}
    /\ pending # <<>>
    /\ out' = out \o write_file_content(Head(pending), ReadFile(Head(pending)))
    /\ pending' = Tail(pending)
    /\ UNCHANGED <<files, unreadable, outDirExists, docs, cfgs, run, di, pc, si, ei,
                   stack, raised, prevDocs, bufsize, gone>>

\* collect_all: for filename in extra_files (contents)
ContExtra ==
    /\ pc = "c_extras"
    /\ pending = <<>>
    /\ IF ei <= Len(cur.extra_files)
       THEN /\ pending' = (IF Exists(cur.extra_files[ei])
                           THEN <<F(Root, cur.extra_files[ei])>> ELSE <<>>)
            /\ ei' = ei + 1
            /\ UNCHANGED pc
       ELSE /\ pc' = "close"
            /\ UNCHANGED <<pending, ei>>
    /\ UNCHANGED <<files, unreadable, outDirExists, docs, cfgs, run, di, out, si,
                   stack, raised, prevDocs, bufsize, gone>>

\* the end of the with block: the buffered text reaches the document
CloseOutput ==
    /\ pc = "close"
    /\ docs' = [docs EXCEPT ![cur.output_filename].data = @ \o out]
    /\ pc' = "done"
    /\ UNCHANGED <<files, unreadable, outDirExists, cfgs, run, di, out, si, ei, stack,
                   pending, raised, prevDocs, bufsize, gone>>

Next ==
    \/ ensure_output_dir
    \/ OpenOutput
    \/ StructExtra
    \/ StructScanDir
    \/ StructWalk
    \/ ContScanDir
    \/ ContWalk
    \/ ContEmit
    \/ ContExtra
    \/ CloseOutput

Spec == Init /\ [][Next]_vars

(***************************************************************************)
(* Another process removes a file of the tree while the script runs.       *)
(***************************************************************************)
Disappear ==
    /\ pc # "done"
    /\ gone < MaxGone
    /\ \E f \in files : files' = files \ {f}
    /\ gone' = gone + 1
    /\ UNCHANGED <<unreadable, outDirExists, docs, cfgs, run, di, pc, out, si, ei,
                   stack, pending, raised, prevDocs, bufsize>>

NextRace == Next \/ Disappear

SpecRace == Init /\ [][NextRace]_vars

(***************************************************************************)
(* __main__ makes several calls of collect_files, and the script is run    *)
(* twice in a row on a tree that nothing else changes.                     *)
(***************************************************************************)
\* the next collect_files call of __main__
NextCall ==
    /\ pc = "done"
    /\ ~ raised
    /\ di < Len(cfgs)
    /\ di' = di + 1
    /\ pc' = "open"
    /\ UNCHANGED <<files, unreadable, outDirExists, docs, cfgs, run, out, si, ei, stack,
                   pending, raised, prevDocs, bufsize, gone>>

\* the script is started again
SecondRun ==
    /\ pc = "done"
    /\ ~ raised
    /\ di = Len(cfgs)
    /\ run = 1
    /\ run' = 2
    /\ prevDocs' = docs
    /\ di' = 1
    /\ pc' = "main"
    /\ UNCHANGED <<files, unreadable, outDirExists, docs, cfgs, out, si, ei, stack,
                   pending, raised, bufsize, gone>>

\* calls that may reach OUTPUT_DIR and match the documents in it
TwiceCalls(name) ==
    {AllCall(scan, ign, <<>>, ext, name) :
        scan \in {<<Dot>>, <<SCRIPT_DIR>>, <<Lib>>},
        ign \in {{}, {DevTools}},
        ext \in {<<ExtX>>, <<ExtT>>}}
    \cup
    {V4Call(ext, <<>>, exc, name) :
        ext \in {<<ExtX>>, <<ExtT>>},
        exc \in {<<>>, <<OUTPUT_DIR>>}}

BufferSizes == {1, 4, DefaultBuffer}

InitTwice ==
    /\ files = AlwaysFiles \cup SomeFiles
    /\ unreadable = {}
    /\ outDirExists \in BOOLEAN
    /\ docs \in (IF outDirExists THEN {NoDocs, StaleDocs} ELSE {NoDocs})
    /\ cfgs \in {<<c1, c2>> : c1 \in TwiceCalls(Pt), c2 \in TwiceCalls(Qt)}
    /\ cfgs[1].script = cfgs[2].script
    /\ bufsize \in BufferSizes
    /\ InitProgram

NextTwice == Next \/ NextCall \/ SecondRun

SpecTwice == InitTwice /\ [][NextTwice]_vars

(***************************************************************************)
(* What a finished document shows.                                         *)
(***************************************************************************)
Done == pc = "done" /\ ~ raised

RECURSIVE Segments(_)
\* the directory names a path goes through
Segments(p) ==
    IF p = <<>> THEN <<>>
    ELSE IF \E i \in 1..Len(p) : p[i] = Sep
         THEN LET i == CHOOSE k \in 1..Len(p) : p[k] = Sep /\ \A j \in 1..(k - 1) : p[j] # Sep
              IN  <<SubSeq(p, 1, i - 1)>> \o Segments(SubSeq(p, i + 1, Len(p)))
         ELSE <<p>>

\* the paths of the files the structure section lists, in the order of their lines
StructPaths(doc) ==
    LET t == SelectSeq(doc, LAMBDA x : x.k \in {"file", "rootfile"})
    IN  [i \in 1..Len(t) |-> t[i].path]

\* the paths of the files the contents section has a block for, in the order of the blocks
BlockPaths(doc) ==
    LET t == SelectSeq(doc, LAMBDA x : x.k = "block")
    IN  [i \in 1..Len(t) |-> t[i].path]

Blocks(doc) == SelectSeq(doc, LAMBDA x : x.k = "block")

FileOf(path) == F(Dirname(path), Basename(path))

\* every file of the tree, the documents of OUTPUT_DIR included
TreeFiles == files \cup {F(OUTPUT_DIR, n) : n \in {m \in DumpNames : docs[m].exists}}

\* directory d lies in the subtree of base, and no directory on the way from
\* base (excluded) down to d (included) has its name in ign
Reached(d, base, ign) ==
    LET sd == Segments(d)
        sb == Segments(base)
    IN  /\ Len(sb) <= Len(sd)
        /\ SubSeq(sd, 1, Len(sb)) = sb
        /\ \A i \in (Len(sb) + 1)..Len(sd) : sd[i] \notin ign

\* the files a call is to emit in the contents section, stated on the tree
\* and the arguments alone
Wanted(c) ==
    IF c.script = "all"
    THEN {f \in TreeFiles :
             /\ ExtMatch(f.name, c.extensions)
             /\ \E i \in 1..Len(c.scan_dirs) :
                   /\ Join(Root, c.scan_dirs[i]) \in ExistingDirs
                   /\ Reached(f.dir, Join(Root, c.scan_dirs[i]), c.ignore_set)}
         \cup {f \in files : f.dir = Root /\ f.name \in Range(c.extra_files)}
    ELSE {f \in TreeFiles :
             /\ ExtMatch(f.name, c.extensions)
             /\ Reached(f.dir, Root, IGNORE_DIRS)
             /\ (c.include_paths = <<>>
                 \/ \E p \in Range(c.include_paths) : StartsWith(f.dir, p))
             /\ \A p \in Range(c.exclude_paths) : ~ StartsWith(f.dir, p)}

\* s without the entries that are not in S
Restrict(s, S) == SelectSeq(s, LAMBDA x : x \in S)

(***************************************************************************)
(* The claims.                                                             *)
(***************************************************************************)

\* C1: after a collect_files run a file has a content block in the FILE
\* CONTENTS section if and only if it is listed in the FILE STRUCTURE section.
C1_StructureEqualsContents ==
    Done => Range(StructPaths(out)) = Range(BlockPaths(out))

\* C2: the files get their content blocks in the order in which the
\* structure section lists them (each order taken over the files that
\* appear in both sections).
C2_SameOrder ==
    Done => Restrict(BlockPaths(out), Range(StructPaths(out)))
            = Restrict(StructPaths(out), Range(BlockPaths(out)))

\* C3: a directory whose base name is in the ignore set produces no
\* directory line, no file line and no content block, for itself and for
\* every descendant, the scan root included.
C3_IgnoredProduceNothing ==
    Done =>
      \A i \in 1..Len(out) :
         /\ out[i].k = "dir" => Range(Segments(out[i].path)) \cap cur.ignore_set = {}
         /\ out[i].k \in {"file", "block"} =>
               Range(Segments(Dirname(out[i].path))) \cap cur.ignore_set = {}

\* C4: collect_files completes without raising; every unreadable file among
\* the files to emit gets exactly one block that holds the error marker and
\* nothing of the file, every readable one exactly one block that holds its
\* full text, and there are no other blocks: with one unreadable file and N
\* readable ones, one error marker and N full blocks, wherever the
\* unreadable file falls in the traversal.
C4_OneMarkerPerUnreadableFile ==
    /\ ~ raised
    /\ pc # "done" => ENABLED Next
    /\ Done =>
         LET b == Blocks(out)
             errors == {i \in 1..Len(b) : b[i].body = ErrorMarker}
             full   == {i \in 1..Len(b) : b[i].body = Text(FileOf(b[i].path))}
         IN  /\ errors \cup full = 1..Len(b)
             /\ Cardinality(errors) = Cardinality(Wanted(cur) \cap unreadable)
             /\ Cardinality(full) = Cardinality(Wanted(cur) \ unreadable)
             /\ \A i \in errors : FileOf(b[i].path) \in unreadable
             /\ \A i \in full : FileOf(b[i].path) \notin unreadable

\* C4 witness: a finished document with the error marker of the unreadable
\* file between the full blocks of two readable files.
C4_Witness ==
    /\ Done
    /\ Cardinality(unreadable) = 1
    /\ \E i, j, k \in 1..Len(out) :
          /\ i < j /\ j < k
          /\ out[i].k = "block" /\ out[i].body # ErrorMarker
          /\ out[j].k = "block" /\ out[j].body = ErrorMarker
          /\ out[k].k = "block" /\ out[k].body # ErrorMarker

\* C5: a file that is listed in the structure section and disappears before
\* its content is read is not left out of the contents section: it has a
\* block there (holding the error marker).
C5_DisappearedFileStillHasBlock ==
    Done =>
      \A i \in 1..Len(out) :
         (/\ out[i].k \in {"file", "rootfile"}
          /\ FileOf(out[i].path) \notin TreeFiles
          /\ cur.script = "v4" =>
                ContentVisits(Dirname(out[i].path), cur.include_paths, cur.exclude_paths))
         => \E j \in 1..Len(out) : out[j].k = "block" /\ out[j].path = out[i].path

\* C6: in collect_project_v4.collect_files with an include list, a file is
\* emitted (listed or given a block) only if the path of its directory starts
\* with some include prefix, and never if it starts with an exclude prefix.
C6_OnlyInsideIncludePrefix ==
    (Done /\ cur.script = "v4" /\ cur.include_paths # <<>>) =>
      \A i \in 1..Len(out) :
         out[i].k \in {"file", "block"} =>
            /\ \E p \in Range(cur.include_paths) : StartsWith(Dirname(out[i].path), p)
            /\ \A p \in Range(cur.exclude_paths) : ~ StartsWith(Dirname(out[i].path), p)

\* C8: in collect_all.collect_files every scan directory that does not exist
\* has its "Directory not found" notice in the structure section and nothing
\* in the contents section, and every other scan directory and extra file of
\* the run is listed and emitted in full; the run does not abort.
C8_MissingScanDirIsNotFatal ==
    /\ cur.script = "all" => ~ raised
    /\ (Done /\ cur.script = "all") =>
         LET contentsAt == CHOOSE i \in 1..Len(out) : out[i].k = "contents"
         IN  /\ \A s \in 1..Len(cur.scan_dirs) :
                  IF Join(Root, cur.scan_dirs[s]) \in ExistingDirs
                  THEN /\ cur.scan_dirs[s] # Dot =>
                            \E i \in 1..contentsAt :
                               out[i].k = "dir" /\ out[i].path = cur.scan_dirs[s]
                       /\ \A i \in 1..Len(out) :
                            ~ (out[i].k = "notfound" /\ out[i].name = cur.scan_dirs[s])
                  ELSE /\ \E i \in 1..contentsAt :
                            out[i].k = "notfound" /\ out[i].name = cur.scan_dirs[s]
                       /\ \A i \in 1..Len(out) :
                            out[i].k \in {"dir", "file", "block"} =>
                               ~ StartsWith(out[i].path, cur.scan_dirs[s])
             /\ \A f \in Wanted(cur) :
                  /\ \E i \in 1..contentsAt :
                        out[i].k \in {"file", "rootfile"} /\ out[i].path = Join(f.dir, f.name)
                  /\ \E i \in (contentsAt + 1)..Len(out) :
                        /\ out[i].k = "block" /\ out[i].path = Join(f.dir, f.name)
                        /\ f \notin unreadable => out[i].body = Text(f)

\* C8 witness: a finished collect_all run with a missing scan directory, an
\* existing one after it and an extra file, all three with their entries.
C8_Witness ==
    /\ Done
    /\ cur.script = "all"
    /\ cur.scan_dirs = <<Absent, Lib>>
    /\ \E i \in 1..Len(out) : out[i].k = "notfound"
    /\ \E i \in 1..Len(out) : out[i].k = "block" /\ out[i].path = Join(Lib, Bx)
    /\ \E i \in 1..Len(out) : out[i].k = "block" /\ out[i].path = Rx

\* C9: the output directory exists before an output document is opened, the
\* open does not fail, and the document is truncated by it: while it is
\* written and after the run it holds only what this run wrote.
C9_DirCreatedAndDocumentTruncated ==
    /\ ~ raised
    /\ pc \notin {"main", "open"} =>
         /\ outDirExists
         /\ docs[cur.output_filename].exists
    /\ pc \notin {"main", "open", "done"} => docs[cur.output_filename].data = <<>>
    /\ pc = "done" =>
         /\ docs[cur.output_filename].data = out
         /\ \A i \in 1..Len(docs[cur.output_filename].data) :
               docs[cur.output_filename].data[i].k # "stale"

\* C9 witness: a finished run that found an older document at the path of
\* its output document.
C9_Witness ==
    /\ Done
    /\ prevDocs[cur.output_filename].exists
    /\ prevDocs[cur.output_filename].data = Stale
    /\ docs[cur.output_filename].data = out
    /\ Len(out) > 3

\* C10: in collect_project_v4.collect_files every file that gets a content
\* block is also listed in the structure section.
C10_ContentsWithinStructure ==
    (Done /\ cur.script = "v4") => Range(BlockPaths(out)) \subseteq Range(StructPaths(out))

\* C10 witness: a finished collect_project_v4 run with an include and an
\* exclude list that listed more files than it gave blocks to.
C10_Witness ==
    /\ Done
    /\ cur.script = "v4"
    /\ cur.include_paths # <<>>
    /\ cur.exclude_paths # <<>>
    /\ BlockPaths(out) # <<>>
    /\ Range(BlockPaths(out)) # Range(StructPaths(out))

RECURSIVE Bytes(_)
\* the text of a document: its pieces without the paths the model attaches
\* to the lines of the structure section
Bytes(doc) ==
    [i \in 1..Len(doc) |->
        [doc[i] EXCEPT !.path = IF doc[i].k = "block" THEN @ ELSE <<>>,
                       !.body = Bytes(@)]]

====
